---- MODULE Spec2Model ----
(***************************************************************************)
(* Model of src/src/lib.rs: the HyperliquidExchange and HyperliquidInfo    *)
(* facades over the SDK's ExchangeClient and InfoClient.  Every entry      *)
(* point exists in a blocking form (runtime.block_on) and an async form.   *)
(* A handler runs up to its single await, hands one request to the SDK     *)
(* client, and resumes when the client answers.                            *)
(***************************************************************************)
EXTENDS Integers, Sequences, FiniteSets

VARIABLES exch, info, venue, pc, inflight, ret, placed, submitted

vars == <<exch, info, venue, pc, inflight, ret, placed, submitted>>

(***************************************************************************)
(* Bounds of the model.                                                    *)
(***************************************************************************)
MaxAssets == 2      \* size of the largest asset-mapping table
MaxCalls == 2       \* place_order invocations per behaviour
MaxTextLen == 2     \* length of an enumerated venue text field
MaxEntries == 2     \* entries of an open-orders or balances response

Threads == {"t1", "t2"}

(***************************************************************************)
(* Text.  A string is a sequence of one-character strings.                 *)
(***************************************************************************)
RECURSIVE Rep(_, _)
Rep(c, n) == IF n = 0 THEN <<>> ELSE <<c>> \o Rep(c, n - 1)

HexDigits ==
    {<<"0", 0>>, <<"1", 1>>, <<"2", 2>>, <<"3", 3>>, <<"4", 4>>, <<"5", 5>>,
     <<"6", 6>>, <<"7", 7>>, <<"8", 8>>, <<"9", 9>>,
     <<"a", 10>>, <<"b", 11>>, <<"c", 12>>, <<"d", 13>>, <<"e", 14>>, <<"f", 15>>,
     <<"A", 10>>, <<"B", 11>>, <<"C", 12>>, <<"D", 13>>, <<"E", 14>>, <<"F", 15>>}

HexChars == {p[1] : p \in HexDigits}

IsHex(c) == c \in HexChars

HexVal(c) == (CHOOSE p \in HexDigits : p[1] = c)[2]

\* const-hex strips one optional "0x" prefix before decoding
StripPrefix(s) ==
    IF Len(s) >= 2 /\ s[1] = "0" /\ s[2] = "x" THEN SubSeq(s, 3, Len(s)) ELSE s

\* hex::decode_to_array::<N bytes>: exactly digits hex digits, each decoded
DecodeHex(s, digits) ==
    LET body == StripPrefix(s) IN
    IF Len(body) = digits /\ \A i \in 1..Len(body) : IsHex(body[i])
    THEN [ok |-> TRUE, val |-> [i \in 1..digits |-> HexVal(body[i])]]
    ELSE [ok |-> FALSE, err |-> "hex"]

AddressDigits == 40
KeyDigits == 64

\* address.parse::<Address>(): 20 bytes of hex, prefix optional, no checksum
ParseAddress(s) == DecodeHex(s, AddressDigits)

\* the order of the secp256k1 group: a signing key is a scalar in 1..n-1
CurveOrder ==
    [i \in 1..31 |-> 15] \o <<14>> \o
    <<11, 10, 10, 14, 13, 12, 14, 6, 10, 15, 4, 8, 10, 0, 3, 11,
      11, 15, 13, 2, 5, 14, 8, 12, 13, 0, 3, 6, 4, 1, 4, 1>>

\* big-endian digit strings of equal length: a < b
LessThan(a, b) ==
    \E i \in 1..Len(a) : a[i] < b[i] /\ \A j \in 1..(i - 1) : a[j] = b[j]

\* private_key.parse::<PrivateKeySigner>(): 32 bytes of hex, a nonzero scalar
\* below the group order
ParsePrivateKey(s) ==
    LET bytes == DecodeHex(s, KeyDigits) IN
    IF ~bytes.ok THEN bytes
    ELSE IF (\A i \in 1..KeyDigits : bytes.val[i] = 0) \/ ~LessThan(bytes.val, CurveOrder)
         THEN [ok |-> FALSE, err |-> "ecdsa"]
         ELSE bytes

(***************************************************************************)
(* f64 values are fixed-point integers in units of 10^-MaxTextLen, enough  *)
(* to hold every decimal text of the model exactly.  Venue texts are drawn *)
(* from decimal digits, the sign and the point; str::parse::<f64> accepts  *)
(* [sign] digits [. digits] with at least one digit.                       *)
(***************************************************************************)
RECURSIVE Pow10(_)
Pow10(n) == IF n = 0 THEN 1 ELSE 10 * Pow10(n - 1)

IsDigit(c) == c \in {"0", "1", "2", "3", "4", "5", "6", "7", "8", "9"}

RECURSIVE DigitsVal(_)
DigitsVal(s) ==
    IF Len(s) = 0 THEN 0
    ELSE 10 * DigitsVal(SubSeq(s, 1, Len(s) - 1)) + HexVal(s[Len(s)])

ParseF64(s) ==
    LET signed == Len(s) >= 1 /\ s[1] \in {"+", "-"}
        body == IF signed THEN SubSeq(s, 2, Len(s)) ELSE s
        points == {i \in 1..Len(body) : body[i] = "."}
        wellFormed ==
            /\ \A i \in 1..Len(body) : IsDigit(body[i]) \/ body[i] = "."
            /\ Cardinality(points) <= 1
            /\ \E i \in 1..Len(body) : IsDigit(body[i])
        dot == IF points = {} THEN Len(body) + 1 ELSE CHOOSE i \in points : TRUE
        whole == SubSeq(body, 1, dot - 1)
        frac == SubSeq(body, dot + 1, Len(body))
        magnitude == DigitsVal(whole) * Pow10(MaxTextLen)
                        + DigitsVal(frac) * Pow10(MaxTextLen - Len(frac))
    IN  IF ~wellFormed THEN [ok |-> FALSE, err |-> "invalid float literal"]
        ELSE [ok |-> TRUE,
              val |-> IF signed /\ s[1] = "-" THEN 0 - magnitude ELSE magnitude]

\* Result::unwrap_or
unwrap_or(r, default) == IF r.ok THEN r.val ELSE default

(***************************************************************************)
(* Results and the error taxonomy (lib.rs 16-32).                          *)
(***************************************************************************)
Ok(v) == [ok |-> TRUE, val |-> v]

Err(e) == [ok |-> FALSE, err |-> e]

InvalidPrivateKey(m) == [kind |-> "InvalidPrivateKey", message |-> m]

NetworkError(m) == [kind |-> "NetworkError", message |-> m]

InvalidInput(m) == [kind |-> "InvalidInput", message |-> m]

\* impl From<hyperliquid_rust_sdk::Error> for HyperliquidError: what `?` applies
From(err) == [kind |-> "ApiError", message |-> err]

None == [some |-> FALSE]

Some(v) == [some |-> TRUE, val |-> v]

\* format!("{:?}", response)
DebugFormat(response) == [debug |-> response]

NoRequest == [method |-> "none"]

NoReply == [ok |-> FALSE, err |-> "pending"]

(***************************************************************************)
(* HyperliquidExchange.  Each handler is given the answer `reply` of the   *)
(* SDK client to the request it makes, and yields that request and the     *)
(* value it returns.                                                       *)
(***************************************************************************)
\* variant: time-in-force immediate-or-cancel
place_order_Ioc(order, reply) ==
    LET client_order ==
            [asset |-> order.asset, is_buy |-> order.is_buy,
             reduce_only |-> order.reduce_only, limit_px |-> order.price,
             sz |-> order.size, order_type |-> [limit |-> [tif |-> "Ioc"]],
             cloid |-> None]
    IN  [req |-> [method |-> "order", order |-> client_order],
         result |-> IF reply.ok THEN Ok(DebugFormat(reply.val))
                    ELSE Err(From(reply.err))]

place_order(order, reply) ==
    LET client_order ==
            [asset |-> order.asset, is_buy |-> order.is_buy,
             reduce_only |-> order.reduce_only, limit_px |-> order.price,
             sz |-> order.size, order_type |-> [limit |-> [tif |-> "Gtc"]],
             cloid |-> None]
    IN  [req |-> [method |-> "order", order |-> client_order],
         result |-> IF reply.ok THEN Ok(DebugFormat(reply.val))
                    ELSE Err(From(reply.err))]

place_order_async(order, reply) ==
    LET client_order ==
            [asset |-> order.asset, is_buy |-> order.is_buy,
             reduce_only |-> order.reduce_only, limit_px |-> order.price,
             sz |-> order.size, order_type |-> [limit |-> [tif |-> "Gtc"]],
             cloid |-> None]
    IN  [req |-> [method |-> "order", order |-> client_order],
         result |-> IF reply.ok THEN Ok(DebugFormat(reply.val))
                    ELSE Err(From(reply.err))]

cancel_order(cancel, reply) ==
    LET cancel_req == [asset |-> cancel.asset, oid |-> cancel.oid]
    IN  [req |-> [method |-> "cancel", cancel |-> cancel_req],
         result |-> IF reply.ok THEN Ok(DebugFormat(reply.val))
                    ELSE Err(From(reply.err))]

cancel_order_async(cancel, reply) ==
    LET cancel_req == [asset |-> cancel.asset, oid |-> cancel.oid]
    IN  [req |-> [method |-> "cancel", cancel |-> cancel_req],
         result |-> IF reply.ok THEN Ok(DebugFormat(reply.val))
                    ELSE Err(From(reply.err))]

\* variant: the `?` after bulk_cancel is missing, the failure is formatted
cancel_all_orders_NoTry(client, asset, reply) ==
    LET keys == client.coin_to_asset
        cancel_reqs ==
            IF asset.some THEN <<[asset |-> asset.val, oid |-> 0]>>
            ELSE [i \in 1..Len(keys) |-> [asset |-> keys[i], oid |-> 0]]
    IN  [req |-> [method |-> "bulk_cancel", cancels |-> cancel_reqs],
         result |-> Ok(DebugFormat(reply))]

\* variant: the loop over the keys stops one short
cancel_all_orders_async_OneShort(client, asset, reply) ==
    LET keys == client.coin_to_asset
        cancel_reqs ==
            IF asset.some THEN <<[asset |-> asset.val, oid |-> 0]>>
            ELSE [i \in 1..(Len(keys) - 1) |-> [asset |-> keys[i], oid |-> 0]]
    IN  [req |-> [method |-> "bulk_cancel", cancels |-> cancel_reqs],
         result |-> IF reply.ok THEN Ok(DebugFormat(reply.val))
                    ELSE Err(From(reply.err))]

\* coin_to_asset.keys() is the table's iteration order, a sequence without
\* repetition fixed when the table was built
cancel_all_orders(client, asset, reply) ==
    LET keys == client.coin_to_asset
        cancel_reqs ==
            IF asset.some THEN <<[asset |-> asset.val, oid |-> 0]>>
            ELSE [i \in 1..Len(keys) |-> [asset |-> keys[i], oid |-> 0]]
    IN  [req |-> [method |-> "bulk_cancel", cancels |-> cancel_reqs],
         result |-> IF reply.ok THEN Ok(DebugFormat(reply.val))
                    ELSE Err(From(reply.err))]

cancel_all_orders_async(client, asset, reply) ==
    LET keys == client.coin_to_asset
        cancel_reqs ==
            IF asset.some THEN <<[asset |-> asset.val, oid |-> 0]>>
            ELSE [i \in 1..Len(keys) |-> [asset |-> keys[i], oid |-> 0]]
    IN  [req |-> [method |-> "bulk_cancel", cancels |-> cancel_reqs],
         result |-> IF reply.ok THEN Ok(DebugFormat(reply.val))
                    ELSE Err(From(reply.err))]

(***************************************************************************)
(* HyperliquidInfo.                                                        *)
(***************************************************************************)
get_user_state(address, reply) ==
    LET addr == ParseAddress(address) IN
    IF ~addr.ok THEN [req |-> NoRequest, result |-> Err(InvalidInput(addr.err))]
    ELSE [req |-> [method |-> "user_state", addr |-> addr.val],
          result |->
            IF ~reply.ok THEN Err(From(reply.err))
            ELSE LET state == reply.val IN
                 Ok([address |-> address,
                     margin_summary_equity |->
                        unwrap_or(ParseF64(state.margin_summary.account_value), 0),
                     margin_summary_account_value |->
                        unwrap_or(ParseF64(state.margin_summary.account_value), 0),
                     margin_summary_total_margin_used |->
                        unwrap_or(ParseF64(state.margin_summary.total_margin_used), 0)])]

\* variant: equity read from the margin used
get_user_state_async_EquityFromMargin(address, reply) ==
    LET addr == ParseAddress(address) IN
    IF ~addr.ok THEN [req |-> NoRequest, result |-> Err(InvalidInput(addr.err))]
    ELSE [req |-> [method |-> "user_state", addr |-> addr.val],
          result |->
            IF ~reply.ok THEN Err(From(reply.err))
            ELSE LET state == reply.val IN
                 Ok([address |-> address,
                     margin_summary_equity |->
                        unwrap_or(ParseF64(state.margin_summary.total_margin_used), 0),
                     margin_summary_account_value |->
                        unwrap_or(ParseF64(state.margin_summary.account_value), 0),
                     margin_summary_total_margin_used |->
                        unwrap_or(ParseF64(state.margin_summary.total_margin_used), 0)])]

get_user_state_async(address, reply) ==
    LET addr == ParseAddress(address) IN
    IF ~addr.ok THEN [req |-> NoRequest, result |-> Err(InvalidInput(addr.err))]
    ELSE [req |-> [method |-> "user_state", addr |-> addr.val],
          result |->
            IF ~reply.ok THEN Err(From(reply.err))
            ELSE LET state == reply.val IN
                 Ok([address |-> address,
                     margin_summary_equity |->
                        unwrap_or(ParseF64(state.margin_summary.account_value), 0),
                     margin_summary_account_value |->
                        unwrap_or(ParseF64(state.margin_summary.account_value), 0),
                     margin_summary_total_margin_used |->
                        unwrap_or(ParseF64(state.margin_summary.total_margin_used), 0)])]

get_open_orders(address, reply) ==
    LET addr == ParseAddress(address) IN
    IF ~addr.ok THEN [req |-> NoRequest, result |-> Err(InvalidInput(addr.err))]
    ELSE [req |-> [method |-> "open_orders", addr |-> addr.val],
          result |->
            IF ~reply.ok THEN Err(From(reply.err))
            ELSE LET orders == reply.val IN
                 Ok([i \in 1..Len(orders) |->
                        [asset |-> orders[i].coin,
                         is_buy |-> (orders[i].side = "B"),
                         size |-> unwrap_or(ParseF64(orders[i].sz), 0),
                         price |-> unwrap_or(ParseF64(orders[i].limit_px), 0),
                         oid |-> orders[i].oid,
                         timestamp |-> orders[i].timestamp]])]

\* variant: the side codes exchanged
get_open_orders_async_SideA(address, reply) ==
    LET addr == ParseAddress(address) IN
    IF ~addr.ok THEN [req |-> NoRequest, result |-> Err(InvalidInput(addr.err))]
    ELSE [req |-> [method |-> "open_orders", addr |-> addr.val],
          result |->
            IF ~reply.ok THEN Err(From(reply.err))
            ELSE LET orders == reply.val IN
                 Ok([i \in 1..Len(orders) |->
                        [asset |-> orders[i].coin,
                         is_buy |-> (orders[i].side = "A"),
                         size |-> unwrap_or(ParseF64(orders[i].sz), 0),
                         price |-> unwrap_or(ParseF64(orders[i].limit_px), 0),
                         oid |-> orders[i].oid,
                         timestamp |-> orders[i].timestamp]])]

get_open_orders_async(address, reply) ==
    LET addr == ParseAddress(address) IN
    IF ~addr.ok THEN [req |-> NoRequest, result |-> Err(InvalidInput(addr.err))]
    ELSE [req |-> [method |-> "open_orders", addr |-> addr.val],
          result |->
            IF ~reply.ok THEN Err(From(reply.err))
            ELSE LET orders == reply.val IN
                 Ok([i \in 1..Len(orders) |->
                        [asset |-> orders[i].coin,
                         is_buy |-> (orders[i].side = "B"),
                         size |-> unwrap_or(ParseF64(orders[i].sz), 0),
                         price |-> unwrap_or(ParseF64(orders[i].limit_px), 0),
                         oid |-> orders[i].oid,
                         timestamp |-> orders[i].timestamp]])]

\* variant: the address failure converted like an SDK failure
get_user_balances_BadAddressAsApiError(address, reply) ==
    LET addr == ParseAddress(address) IN
    IF ~addr.ok THEN [req |-> NoRequest, result |-> Err(From(addr.err))]
    ELSE [req |-> [method |-> "user_token_balances", addr |-> addr.val],
          result |->
            IF ~reply.ok THEN Err(From(reply.err))
            ELSE LET balances == reply.val.balances IN
                 Ok([i \in 1..Len(balances) |->
                        [token |-> balances[i].coin,
                         hold |-> unwrap_or(ParseF64(balances[i].hold), 0),
                         total |-> unwrap_or(ParseF64(balances[i].total), 0)]])]

get_user_balances(address, reply) ==
    LET addr == ParseAddress(address) IN
    IF ~addr.ok THEN [req |-> NoRequest, result |-> Err(InvalidInput(addr.err))]
    ELSE [req |-> [method |-> "user_token_balances", addr |-> addr.val],
          result |->
            IF ~reply.ok THEN Err(From(reply.err))
            ELSE LET balances == reply.val.balances IN
                 Ok([i \in 1..Len(balances) |->
                        [token |-> balances[i].coin,
                         hold |-> unwrap_or(ParseF64(balances[i].hold), 0),
                         total |-> unwrap_or(ParseF64(balances[i].total), 0)]])]

\* variant: a number that does not parse fails the query
get_user_balances_async_StrictParse(address, reply) ==
    LET addr == ParseAddress(address) IN
    IF ~addr.ok THEN [req |-> NoRequest, result |-> Err(InvalidInput(addr.err))]
    ELSE [req |-> [method |-> "user_token_balances", addr |-> addr.val],
          result |->
            IF ~reply.ok THEN Err(From(reply.err))
            ELSE LET balances == reply.val.balances IN
                 IF \E i \in 1..Len(balances) :
                        ~ParseF64(balances[i].hold).ok \/ ~ParseF64(balances[i].total).ok
                 THEN Err(InvalidInput("invalid float literal"))
                 ELSE Ok([i \in 1..Len(balances) |->
                            [token |-> balances[i].coin,
                             hold |-> ParseF64(balances[i].hold).val,
                             total |-> ParseF64(balances[i].total).val]])]

get_user_balances_async(address, reply) ==
    LET addr == ParseAddress(address) IN
    IF ~addr.ok THEN [req |-> NoRequest, result |-> Err(InvalidInput(addr.err))]
    ELSE [req |-> [method |-> "user_token_balances", addr |-> addr.val],
          result |->
            IF ~reply.ok THEN Err(From(reply.err))
            ELSE LET balances == reply.val.balances IN
                 Ok([i \in 1..Len(balances) |->
                        [token |-> balances[i].coin,
                         hold |-> unwrap_or(ParseF64(balances[i].hold), 0),
                         total |-> unwrap_or(ParseF64(balances[i].total), 0)]])]

get_all_mids(reply) ==
    [req |-> [method |-> "all_mids"],
     result |-> IF reply.ok THEN Ok(reply.val) ELSE Err(From(reply.err))]

get_all_mids_async(reply) ==
    [req |-> [method |-> "all_mids"],
     result |-> IF reply.ok THEN Ok(reply.val) ELSE Err(From(reply.err))]

(***************************************************************************)
(* Construction.  `runtime` is the outcome of tokio's Runtime::new() and   *)
(* `established` the outcome of the SDK client's constructor, were it      *)
(* called.  `req` is the call made to that constructor, if any.            *)
(***************************************************************************)
\* impl From<BaseUrl> for SdkBaseUrl
SdkBaseUrl(base_url) ==
    CASE base_url = "Mainnet" -> [sdk |-> "Mainnet"]
      [] base_url = "Testnet" -> [sdk |-> "Testnet"]

\* format!("{:?}", wallet.address()): the address derived from the key
WalletAddress(wallet) == [address_of |-> wallet]

\* variant: the key parsed before the runtime is created
HyperliquidExchange_new_KeyFirst(private_key, base_url, runtime, established) ==
    LET wallet == ParsePrivateKey(private_key) IN
    IF ~wallet.ok
    THEN [req |-> NoRequest, result |-> Err(InvalidPrivateKey(wallet.err))]
    ELSE IF ~runtime.ok
         THEN [req |-> NoRequest, result |-> Err(NetworkError(runtime.err))]
         ELSE [req |-> [method |-> "ExchangeClient::new", wallet |-> wallet.val,
                        base_url |-> Some(SdkBaseUrl(base_url))],
               result |->
                 IF ~established.ok THEN Err(From(established.err))
                 ELSE Ok([client |-> established.val, runtime |-> runtime.val,
                          wallet_address |-> WalletAddress(wallet.val)])]

HyperliquidExchange_new(private_key, base_url, runtime, established) ==
    IF ~runtime.ok
    THEN [req |-> NoRequest, result |-> Err(NetworkError(runtime.err))]
    ELSE LET wallet == ParsePrivateKey(private_key) IN
         IF ~wallet.ok
         THEN [req |-> NoRequest, result |-> Err(InvalidPrivateKey(wallet.err))]
         ELSE [req |-> [method |-> "ExchangeClient::new", wallet |-> wallet.val,
                        base_url |-> Some(SdkBaseUrl(base_url))],
               result |->
                 IF ~established.ok THEN Err(From(established.err))
                 ELSE Ok([client |-> established.val, runtime |-> runtime.val,
                          wallet_address |-> WalletAddress(wallet.val)])]

\* variant: the client's failure mapped like the runtime's
HyperliquidInfo_new_AllNetworkError(base_url, runtime, established) ==
    IF ~runtime.ok
    THEN [req |-> NoRequest, result |-> Err(NetworkError(runtime.err))]
    ELSE [req |-> [method |-> "InfoClient::new",
                   base_url |-> Some(SdkBaseUrl(base_url))],
          result |->
            IF ~established.ok THEN Err(NetworkError(established.err))
            ELSE Ok([client |-> established.val, runtime |-> runtime.val])]

HyperliquidInfo_new(base_url, runtime, established) ==
    IF ~runtime.ok
    THEN [req |-> NoRequest, result |-> Err(NetworkError(runtime.err))]
    ELSE [req |-> [method |-> "InfoClient::new",
                   base_url |-> Some(SdkBaseUrl(base_url))],
          result |->
            IF ~established.ok THEN Err(From(established.err))
            ELSE Ok([client |-> established.val, runtime |-> runtime.val])]

create_exchange_client(private_key, base_url, runtime, established) ==
    HyperliquidExchange_new(private_key, base_url, runtime, established)

create_info_client(base_url, runtime, established) ==
    HyperliquidInfo_new(base_url, runtime, established)

get_wallet_address(self) == self.wallet_address

(***************************************************************************)
(* The caller's side of a call.  runtime.block_on keeps the calling thread *)
(* inside the call until the future has completed; an async entry point is *)
(* a future the caller polls.                                              *)
(***************************************************************************)
\* variant: the future is spawned on the runtime and the thread goes on
spawn(call) == [pc |-> "ready", call |-> call]

block_on(call) == [pc |-> "blocked", call |-> call]

poll(call) == [pc |-> "polling", call |-> call]

Handler(op, self, args, reply) ==
    CASE op = "place_order" -> place_order(args, reply)
      [] op = "place_order_async" -> place_order_async(args, reply)
      [] op = "cancel_order" -> cancel_order(args, reply)
      [] op = "cancel_order_async" -> cancel_order_async(args, reply)
      [] op = "cancel_all_orders" -> cancel_all_orders(self.client, args, reply)
      [] op = "cancel_all_orders_async" ->
            cancel_all_orders_async(self.client, args, reply)
      [] op = "get_user_state" -> get_user_state(args, reply)
      [] op = "get_user_state_async" -> get_user_state_async(args, reply)
      [] op = "get_open_orders" -> get_open_orders(args, reply)
      [] op = "get_open_orders_async" -> get_open_orders_async(args, reply)
      [] op = "get_user_balances" -> get_user_balances(args, reply)
      [] op = "get_user_balances_async" -> get_user_balances_async(args, reply)
      [] op = "get_all_mids" -> get_all_mids(reply)
      [] op = "get_all_mids_async" -> get_all_mids_async(reply)

BlockingOps ==
    {"place_order", "cancel_order", "cancel_all_orders", "get_user_state",
     "get_open_orders", "get_user_balances", "get_all_mids"}

Async(op) ==
    CASE op = "place_order" -> "place_order_async"
      [] op = "cancel_order" -> "cancel_order_async"
      [] op = "cancel_all_orders" -> "cancel_all_orders_async"
      [] op = "get_user_state" -> "get_user_state_async"
      [] op = "get_open_orders" -> "get_open_orders_async"
      [] op = "get_user_balances" -> "get_user_balances_async"
      [] op = "get_all_mids" -> "get_all_mids_async"

AsyncOps == {Async(op) : op \in BlockingOps}

\* the entry point of the other form
Twin(op) == IF op \in BlockingOps THEN Async(op)
            ELSE CHOOSE b \in BlockingOps : Async(b) = op

ExchangeOps ==
    {"place_order", "place_order_async", "cancel_order", "cancel_order_async",
     "cancel_all_orders", "cancel_all_orders_async"}

AddressOps ==
    {"get_user_state", "get_user_state_async", "get_open_orders",
     "get_open_orders_async", "get_user_balances", "get_user_balances_async"}

(***************************************************************************)
(* Inputs of the callers and answers of the venue.                         *)
(***************************************************************************)
AssetList == <<"BTC", "ETH", "SOL", "HYPE">>

AssetNames == {AssetList[i] : i \in 1..MaxAssets}

\* asset-mapping tables in their iteration order: no asset twice
Tables ==
    {tab \in UNION {[1..n -> AssetNames] : n \in 0..MaxAssets} :
        \A i, j \in 1..Len(tab) : i # j => tab[i] # tab[j]}

Keys ==
    {<<"0", "x">> \o Rep("a", 64),        \* valid, prefixed
     Rep("A", 64),                         \* valid, upper case, no prefix
     Rep("0", 64),                         \* the zero scalar
     Rep("f", 64),                         \* not below the group order
     Rep("1", 63),                         \* too short
     <<"0", "x">> \o Rep("g", 64),        \* not hex
     <<>>}

Addresses ==
    {<<"0", "x">> \o Rep("1", 40),        \* valid, prefixed
     Rep("a", 20) \o Rep("B", 20),         \* valid, mixed case, no prefix
     Rep("1", 39),                         \* too short
     <<"0", "x">> \o Rep("1", 41),        \* too long
     Rep("1", 39) \o <<"g">>,              \* not hex
     <<>>}

BaseUrls == {"Mainnet", "Testnet"}

RuntimeOutcomes == {Ok("runtime"), Err("os error")}

SdkErrors == {"GenericRequest"}

OrderRequests ==
    {[asset |-> "BTC", is_buy |-> TRUE, size |-> 1, price |-> 5, reduce_only |-> FALSE],
     [asset |-> "ETH", is_buy |-> FALSE, size |-> 2, price |-> 7, reduce_only |-> TRUE]}

CancelRequests == {[asset |-> "BTC", oid |-> 7], [asset |-> "ETH", oid |-> 0]}

CancelAllArgs == {None, Some("BTC")}

Alphabet == {"1", ".", "-"}

Texts == UNION {[1..n -> Alphabet] : n \in 0..MaxTextLen}

EntryTexts == {<<"1">>, <<".">>}

Sides == {"B", "A", "X"}

OrderEntries ==
    {[coin |-> "BTC", side |-> s, sz |-> a, limit_px |-> b, oid |-> 7, timestamp |-> 100] :
        s \in Sides, a \in EntryTexts, b \in EntryTexts}

BalanceEntries ==
    {[coin |-> "USDC", hold |-> a, total |-> b] : a \in EntryTexts, b \in EntryTexts}

Lists(S) == UNION {[1..n -> S] : n \in 0..MaxEntries}

\* one account as the venue reports it
MainVenue ==
    [user_state |->
        [margin_summary |-> [account_value |-> <<"1", "1">>,
                             total_margin_used |-> <<".">>]],
     open_orders |->
        <<[coin |-> "BTC", side |-> "B", sz |-> <<"1">>, limit_px |-> <<"-">>,
           oid |-> 7, timestamp |-> 100],
          [coin |-> "ETH", side |-> "A", sz |-> <<".", "1">>, limit_px |-> <<"1", ".">>,
           oid |-> 8, timestamp |-> 101]>>,
     user_token_balances |->
        [balances |-> <<[coin |-> "USDC", hold |-> <<>>, total |-> <<"1">>]>>],
     all_mids |-> [c \in {"BTC", "ETH"} |-> IF c = "BTC" THEN <<"1", "1">> ELSE <<>>]]

\* accounts that vary one response over its bounded set of values
MapVenues ==
    {[MainVenue EXCEPT !.user_state =
        [margin_summary |-> [account_value |-> a, total_margin_used |-> m]]] :
        a \in Texts, m \in Texts}
    \cup {[MainVenue EXCEPT !.open_orders = os] : os \in Lists(OrderEntries)}
    \cup {[MainVenue EXCEPT !.user_token_balances = [balances |-> bs]] :
            bs \in Lists(BalanceEntries)}

\* what the SDK client can answer to a request
Replies(req, v) ==
    {Err(e) : e \in SdkErrors} \cup
    CASE req.method \in {"order", "cancel", "bulk_cancel"} ->
            {Ok([status |-> "ok"]), Ok([status |-> "err"])}
      [] req.method = "user_state" -> {Ok(v.user_state)}
      [] req.method = "open_orders" -> {Ok(v.open_orders)}
      [] req.method = "user_token_balances" -> {Ok(v.user_token_balances)}
      [] req.method = "all_mids" -> {Ok(v.all_mids)}

NoSession == [session |-> "none"]

NoCall == [op |-> "none"]

NoRet == [op |-> "none"]

(***************************************************************************)
(* State machine.                                                          *)
(*   exch, info   the sessions the factories have handed out               *)
(*   venue        the account the venue reports                            *)
(*   pc           where each calling thread is                             *)
(*   inflight     the request each thread's call has pending in the client *)
(*   ret          the last call that returned: arguments, request, answer  *)
(*                of the client, returned value                            *)
(*   placed       the OrderRequests given to place_order[_async], in order *)
(*   submitted    the ClientOrderRequests handed to the SDK client         *)
(***************************************************************************)
Idle ==
    /\ pc = [t \in Threads |-> "ready"]
    /\ inflight = [t \in Threads |-> NoCall]
    /\ ret = NoRet
    /\ placed = <<>>
    /\ submitted = <<>>

Init ==
    /\ exch = NoSession
    /\ info = NoSession
    /\ venue = MainVenue
    /\ Idle

CreateExchangeClient(private_key, base_url, runtime, established) ==
    /\ exch = NoSession
    /\ \E made \in {create_exchange_client(private_key, base_url, runtime, established)} :
         /\ exch' = IF made.result.ok THEN made.result.val ELSE exch
         /\ ret' = [op |-> "create_exchange_client",
                    args |-> [private_key |-> private_key, base_url |-> base_url],
                    runtime |-> runtime, req |-> made.req,
                    reply |-> IF made.req = NoRequest THEN NoReply ELSE established,
                    result |-> made.result]
    /\ UNCHANGED <<info, venue, pc, inflight, placed, submitted>>

CreateInfoClient(base_url, runtime, established) ==
    /\ info = NoSession
    /\ \E made \in {create_info_client(base_url, runtime, established)} :
         /\ info' = IF made.result.ok THEN made.result.val ELSE info
         /\ ret' = [op |-> "create_info_client", args |-> [base_url |-> base_url],
                    runtime |-> runtime, req |-> made.req,
                    reply |-> IF made.req = NoRequest THEN NoReply ELSE established,
                    result |-> made.result]
    /\ UNCHANGED <<exch, venue, pc, inflight, placed, submitted>>

\* thread t enters entry point op of session self; h is what the handler does
\* up to its await: it has handed h.req to the client, or has failed before
\* that and returns at once
Enter(t, op, self, args, h) ==
    /\ pc[t] = "ready"
    /\ self # NoSession
    /\ IF h.req = NoRequest
       THEN /\ ret' = [op |-> op, thread |-> t, args |-> args, req |-> NoRequest,
                       reply |-> NoReply, result |-> h.result]
            /\ UNCHANGED <<pc, inflight>>
       ELSE /\ \E entered \in {IF op \in BlockingOps
                               THEN block_on([op |-> op, args |-> args, req |-> h.req])
                               ELSE poll([op |-> op, args |-> args, req |-> h.req])} :
                 /\ pc' = [pc EXCEPT ![t] = entered.pc]
                 /\ inflight' = [inflight EXCEPT ![t] = entered.call]
            /\ ret' = NoRet
    /\ submitted' = IF h.req.method = "order"
                    THEN Append(submitted, h.req.order) ELSE submitted
    /\ UNCHANGED <<exch, info, venue>>

PlaceOrder(t, order) ==
    /\ Len(placed) < MaxCalls
    /\ Enter(t, "place_order", exch, order, place_order(order, NoReply))
    /\ placed' = Append(placed, order)

PlaceOrderAsync(t, order) ==
    /\ Len(placed) < MaxCalls
    /\ Enter(t, "place_order_async", exch, order, place_order_async(order, NoReply))
    /\ placed' = Append(placed, order)

CancelOrder(t, cancel) ==
    /\ Enter(t, "cancel_order", exch, cancel, cancel_order(cancel, NoReply))
    /\ UNCHANGED placed

CancelOrderAsync(t, cancel) ==
    /\ Enter(t, "cancel_order_async", exch, cancel, cancel_order_async(cancel, NoReply))
    /\ UNCHANGED placed

CancelAllOrders(t, asset) ==
    /\ exch # NoSession
    /\ Enter(t, "cancel_all_orders", exch, asset,
             cancel_all_orders(exch.client, asset, NoReply))
    /\ UNCHANGED placed

CancelAllOrdersAsync(t, asset) ==
    /\ exch # NoSession
    /\ Enter(t, "cancel_all_orders_async", exch, asset,
             cancel_all_orders_async(exch.client, asset, NoReply))
    /\ UNCHANGED placed

GetUserState(t, address) ==
    /\ Enter(t, "get_user_state", info, address, get_user_state(address, NoReply))
    /\ UNCHANGED placed

GetUserStateAsync(t, address) ==
    /\ Enter(t, "get_user_state_async", info, address,
             get_user_state_async(address, NoReply))
    /\ UNCHANGED placed

GetOpenOrders(t, address) ==
    /\ Enter(t, "get_open_orders", info, address, get_open_orders(address, NoReply))
    /\ UNCHANGED placed

GetOpenOrdersAsync(t, address) ==
    /\ Enter(t, "get_open_orders_async", info, address,
             get_open_orders_async(address, NoReply))
    /\ UNCHANGED placed

GetUserBalances(t, address) ==
    /\ Enter(t, "get_user_balances", info, address,
             get_user_balances(address, NoReply))
    /\ UNCHANGED placed

GetUserBalancesAsync(t, address) ==
    /\ Enter(t, "get_user_balances_async", info, address,
             get_user_balances_async(address, NoReply))
    /\ UNCHANGED placed

GetAllMids(t) ==
    /\ Enter(t, "get_all_mids", info, None, get_all_mids(NoReply))
    /\ UNCHANGED placed

GetAllMidsAsync(t) ==
    /\ Enter(t, "get_all_mids_async", info, None, get_all_mids_async(NoReply))
    /\ UNCHANGED placed

\* the SDK client answers the request of thread t; the handler resumes after
\* its await, maps the answer and returns
Complete(t) ==
    /\ inflight[t] # NoCall
    /\ \E call \in {inflight[t]} : \E reply \in Replies(call.req, venue) :
         ret' = [op |-> call.op, thread |-> t, args |-> call.args,
                 req |-> call.req, reply |-> reply,
                 result |-> Handler(call.op,
                                    IF call.op \in ExchangeOps THEN exch ELSE info,
                                    call.args, reply).result]
    /\ inflight' = [inflight EXCEPT ![t] = NoCall]
    /\ pc' = [pc EXCEPT ![t] = "ready"]
    /\ UNCHANGED <<exch, info, venue, placed, submitted>>

ExchangeCalls(T, orders, cancels, assets) ==
    \/ \E t \in T, o \in orders : PlaceOrder(t, o)
    \/ \E t \in T, o \in orders : PlaceOrderAsync(t, o)
    \/ \E t \in T, c \in cancels : CancelOrder(t, c)
    \/ \E t \in T, c \in cancels : CancelOrderAsync(t, c)
    \/ \E t \in T, a \in assets : CancelAllOrders(t, a)
    \/ \E t \in T, a \in assets : CancelAllOrdersAsync(t, a)

InfoCalls(T, addresses) ==
    \/ \E t \in T, a \in addresses : GetUserState(t, a)
    \/ \E t \in T, a \in addresses : GetUserStateAsync(t, a)
    \/ \E t \in T, a \in addresses : GetOpenOrders(t, a)
    \/ \E t \in T, a \in addresses : GetOpenOrdersAsync(t, a)
    \/ \E t \in T, a \in addresses : GetUserBalances(t, a)
    \/ \E t \in T, a \in addresses : GetUserBalancesAsync(t, a)
    \/ \E t \in T : GetAllMids(t)
    \/ \E t \in T : GetAllMidsAsync(t)

ExchangeClients == {Ok([coin_to_asset |-> tab]) : tab \in Tables}

InfoClients == {Ok([http |-> "client"])}

Refusals == {Err(e) : e \in SdkErrors}

(***************************************************************************)
(* One thread creates the sessions and calls every entry point, one call   *)
(* after another.                                                          *)
(***************************************************************************)
Next ==
    \/ \E k \in Keys, b \in BaseUrls, r \in RuntimeOutcomes,
          e \in ExchangeClients \cup Refusals : CreateExchangeClient(k, b, r, e)
    \/ \E b \in BaseUrls, r \in RuntimeOutcomes,
          e \in InfoClients \cup Refusals : CreateInfoClient(b, r, e)
    \/ ExchangeCalls({"t1"}, OrderRequests, CancelRequests, CancelAllArgs)
    \/ InfoCalls({"t1"}, Addresses)
    \/ Complete("t1")

Spec == Init /\ [][Next]_vars

(***************************************************************************)
(* The queries of one InfoSession, called one after another by one thread, *)
(* against every account of MapVenues.                                     *)
(***************************************************************************)
ValidAddress == <<"0", "x">> \o Rep("1", 40)

LiveInfo == [client |-> [http |-> "client"], runtime |-> "runtime"]

LiveExchange(tab) ==
    [client |-> [coin_to_asset |-> tab], runtime |-> "runtime",
     wallet_address |-> WalletAddress(ParsePrivateKey(Rep("A", 64)).val)]

InitMap ==
    /\ exch = NoSession
    /\ info = LiveInfo
    /\ venue \in MapVenues
    /\ Idle

NextMap ==
    \/ InfoCalls({"t1"}, {ValidAddress})
    \/ Complete("t1")

SpecMap == InitMap /\ [][NextMap]_vars

(***************************************************************************)
(* Two threads share one session of each kind and call its entry points    *)
(* concurrently.                                                           *)
(***************************************************************************)
InitThreads ==
    /\ exch \in {LiveExchange(tab) : tab \in Tables}
    /\ info = LiveInfo
    /\ venue = MainVenue
    /\ Idle

NextThreads ==
    \/ ExchangeCalls(Threads,
                     {[asset |-> "BTC", is_buy |-> TRUE, size |-> 1, price |-> 5,
                       reduce_only |-> FALSE]},
                     {[asset |-> "BTC", oid |-> 7]}, {None})
    \/ InfoCalls(Threads, {ValidAddress})
    \/ \E t \in Threads : Complete(t)

SpecThreads == InitThreads /\ [][NextThreads]_vars

(***************************************************************************)
(* Properties.                                                             *)
(***************************************************************************)
IsErr(result, kind) == ~result.ok /\ result.err.kind = kind

\* the requests a returned call handed to the SDK client, in order
IssuedBy(r) == IF r.req = NoRequest THEN <<>> ELSE <<r.req>>

CancelAllOps == {"cancel_all_orders", "cancel_all_orders_async"}

PlaceOps == {"place_order", "place_order_async"}

\* the table of the session, in the order keys() yields it
KnownAssets == exch.client.coin_to_asset

\* a bulk-cancel request that covers asset a alone
CancelOf(a) == [method |-> "bulk_cancel", cancels |-> <<[asset |-> a, oid |-> 0]>>]

\* OrderRequest o as a good-till-canceled limit order without client order id
GtcLimit(o) ==
    [asset |-> o.asset, is_buy |-> o.is_buy, reduce_only |-> o.reduce_only,
     limit_px |-> o.price, sz |-> o.size, order_type |-> [limit |-> [tif |-> "Gtc"]],
     cloid |-> None]

\* the value of a venue text under the zero-default policy
ParsedOrZero(text) == IF ParseF64(text).ok THEN ParseF64(text).val ELSE 0

\* C1: an address-taking InfoSession query (blocking or async) given an
\* address the parser rejects returns InvalidInput, has handed no request to
\* the SDK client and leaves none pending.
C1_InvalidAddressRejected ==
    (ret.op \in AddressOps /\ ~ParseAddress(ret.args).ok) =>
        /\ IsErr(ret.result, "InvalidInput")
        /\ IssuedBy(ret) = <<>>
        /\ inflight[ret.thread] = NoCall

C1_Witness ==
    /\ ret.op = "get_user_balances"
    /\ ~ParseAddress(ret.args).ok
    /\ Len(ret.args) = 39
    /\ IsErr(ret.result, "InvalidInput")

\* C2 as stated: for an invalid signing key create_exchange_client returns
\* InvalidPrivateKey whatever the outcome of the other construction steps,
\* returns no session and does not call the client's constructor.
C2_InvalidKeyAlwaysInvalidPrivateKey ==
    (ret.op = "create_exchange_client" /\ ~ParsePrivateKey(ret.args.private_key).ok) =>
        /\ IsErr(ret.result, "InvalidPrivateKey")
        /\ IssuedBy(ret) = <<>>
        /\ exch = NoSession

\* C2 amended: for an invalid signing key create_exchange_client returns no
\* session and does not call the client's constructor; the failure is
\* InvalidPrivateKey when the runtime was created and NetworkError when the
\* creation of the runtime failed, which is tried first.
C2_InvalidKeyConstructsNothing ==
    (ret.op = "create_exchange_client" /\ ~ParsePrivateKey(ret.args.private_key).ok) =>
        /\ IF ret.runtime.ok THEN IsErr(ret.result, "InvalidPrivateKey")
           ELSE IsErr(ret.result, "NetworkError")
        /\ IssuedBy(ret) = <<>>
        /\ exch = NoSession

C2_Witness ==
    /\ ret.op = "create_exchange_client"
    /\ ret.args.private_key = Rep("f", 64)
    /\ ret.runtime.ok
    /\ IsErr(ret.result, "InvalidPrivateKey")
    /\ exch = NoSession

\* C3 as stated: cancel_all_orders(None) hands the client one bulk-cancel
\* request per asset of the table: N requests for N assets, the i-th covering
\* the i-th asset alone with order id 0.
C3_OneRequestPerAsset ==
    (ret.op \in CancelAllOps /\ ret.args = None) =>
        /\ Len(IssuedBy(ret)) = Len(KnownAssets)
        /\ \A i \in 1..Len(IssuedBy(ret)) : IssuedBy(ret)[i] = CancelOf(KnownAssets[i])

\* C3 amended: cancel_all_orders(None) hands the client exactly one
\* bulk-cancel request, whose batch has one entry per asset of the table, in
\* the table's order, each with order id 0; with an empty table the batch is
\* empty.
C3_OneBatchCoveringEveryAsset ==
    (ret.op \in CancelAllOps /\ ret.args = None) =>
        /\ Len(IssuedBy(ret)) = 1
        /\ ret.req.method = "bulk_cancel"
        /\ Len(ret.req.cancels) = Len(KnownAssets)
        /\ \A i \in 1..Len(KnownAssets) :
              ret.req.cancels[i] = [asset |-> KnownAssets[i], oid |-> 0]

C3_Witness ==
    /\ ret.op = "cancel_all_orders_async"
    /\ ret.args = None
    /\ Len(KnownAssets) = 2
    /\ Len(ret.req.cancels) = 2
    /\ ret.result.ok

\* C4 as stated: when cancel_all_orders(None) fails, it is the cancel of one
\* asset, the k-th, that failed, after the cancels of the assets before it
\* were issued one request each.
C4_FailureStopsPerAssetSequence ==
    (ret.op \in CancelAllOps /\ ret.args = None /\ ~ret.reply.ok) =>
        \E k \in 1..Len(KnownAssets) :
            IssuedBy(ret) = [i \in 1..k |-> CancelOf(KnownAssets[i])]

\* C4 amended: cancel_all_orders(None) issues a single bulk-cancel request
\* for all known assets; when the client fails it, the call returns that
\* failure as ApiError and nothing else, it has issued no request before it
\* and issues none after it (no rollback).
C4_FailureOfTheSingleRequest ==
    (ret.op \in CancelAllOps /\ ret.args = None /\ ~ret.reply.ok) =>
        /\ ret.result = Err([kind |-> "ApiError", message |-> ret.reply.err])
        /\ Len(IssuedBy(ret)) = 1
        /\ Len(ret.req.cancels) = Len(KnownAssets)
        /\ inflight[ret.thread] = NoCall

C4_Witness ==
    /\ ret.op = "cancel_all_orders"
    /\ ret.args = None
    /\ ~ret.reply.ok
    /\ Len(KnownAssets) = 2
    /\ IsErr(ret.result, "ApiError")

\* C5 as stated: create_info_client fails only with NetworkError.
C5_InfoFailsOnlyWithNetworkError ==
    (ret.op = "create_info_client" /\ ~ret.result.ok) =>
        ret.result.err.kind = "NetworkError"

\* C5 amended: create_info_client fails with NetworkError when the runtime
\* cannot be created and with ApiError when the client's constructor fails,
\* never with InvalidInput or InvalidPrivateKey; otherwise it succeeds.
C5_InfoFailureKinds ==
    ret.op = "create_info_client" =>
        IF ~ret.runtime.ok THEN IsErr(ret.result, "NetworkError") /\ info = NoSession
        ELSE IF ~ret.reply.ok THEN IsErr(ret.result, "ApiError") /\ info = NoSession
        ELSE ret.result.ok /\ info = ret.result.val

C5_Witness ==
    /\ ret.op = "create_info_client"
    /\ ret.runtime.ok
    /\ ~ret.reply.ok
    /\ IsErr(ret.result, "ApiError")

\* C6: a returned call of any entry point handed the client the request, and
\* returned the value, that the entry point of the other form yields for the
\* same arguments and the same answer of the client.
C6_FormsAgree ==
    ret.op \in BlockingOps \cup AsyncOps =>
        LET twin == Handler(Twin(ret.op), IF ret.op \in ExchangeOps THEN exch ELSE info,
                            ret.args, ret.reply)
        IN  /\ twin.req = ret.req
            /\ twin.result = ret.result

C6_Witness ==
    /\ ret.op = "get_open_orders"
    /\ ret.result.ok
    /\ Len(ret.result.val) = 2
    /\ ret.result.val[1].is_buy
    /\ ~ret.result.val[2].is_buy

\* C7: the orders handed to the SDK client are, one for one and in order,
\* the OrderRequests given to place_order and place_order_async, each as a
\* good-till-canceled limit order without client order id and with the
\* caller's asset, side, size, price and reduce_only; a failure of the client
\* is returned as ApiError.
C7_OneGtcSubmissionPerCall ==
    /\ Len(submitted) = Len(placed)
    /\ \A i \in 1..Len(placed) : submitted[i] = GtcLimit(placed[i])
    /\ ret.op \in PlaceOps =>
          /\ IssuedBy(ret) = <<[method |-> "order", order |-> GtcLimit(ret.args)]>>
          /\ ~ret.reply.ok => IsErr(ret.result, "ApiError")

C7_Witness ==
    /\ Len(placed) = 2
    /\ placed[1] = placed[2]
    /\ Len(submitted) = 2
    /\ submitted[1] = submitted[2]
    /\ ret.op = "place_order"
    /\ IsErr(ret.result, "ApiError")

\* C8: when the client answers get_user_state, get_open_orders or
\* get_user_balances (either form), the query succeeds, the result has one
\* entry per entry of the answer, and each numeric field is the value of its
\* own text, 0 when that text does not parse.
C8_UnparsedNumbersAreZero ==
    /\ (ret.op \in {"get_user_state", "get_user_state_async"} /\ ret.reply.ok) =>
          /\ ret.result.ok
          /\ ret.result.val.margin_summary_account_value =
                ParsedOrZero(ret.reply.val.margin_summary.account_value)
          /\ ret.result.val.margin_summary_total_margin_used =
                ParsedOrZero(ret.reply.val.margin_summary.total_margin_used)
    /\ (ret.op \in {"get_open_orders", "get_open_orders_async"} /\ ret.reply.ok) =>
          /\ ret.result.ok
          /\ Len(ret.result.val) = Len(ret.reply.val)
          /\ \A i \in 1..Len(ret.reply.val) :
                /\ ret.result.val[i].size = ParsedOrZero(ret.reply.val[i].sz)
                /\ ret.result.val[i].price = ParsedOrZero(ret.reply.val[i].limit_px)
    /\ (ret.op \in {"get_user_balances", "get_user_balances_async"} /\ ret.reply.ok) =>
          /\ ret.result.ok
          /\ Len(ret.result.val) = Len(ret.reply.val.balances)
          /\ \A i \in 1..Len(ret.reply.val.balances) :
                /\ ret.result.val[i].hold = ParsedOrZero(ret.reply.val.balances[i].hold)
                /\ ret.result.val[i].total = ParsedOrZero(ret.reply.val.balances[i].total)

C8_Witness ==
    /\ ret.op = "get_user_balances_async"
    /\ ret.reply.ok
    /\ Len(ret.reply.val.balances) = 2
    /\ ~ParseF64(ret.reply.val.balances[1].hold).ok
    /\ ParseF64(ret.reply.val.balances[2].total).ok
    /\ ret.result.ok
    /\ ret.result.val[1].hold = 0
    /\ ret.result.val[2].total # 0

\* C9: a thread whose blocking call has a request pending in the client is
\* blocked inside that call, and a thread that is free to start a call has no
\* request pending: a blocking entry point has returned only once the client
\* has answered its request.
C9_BlockingCallReturnsAfterReply ==
    \A t \in Threads :
        /\ (inflight[t] # NoCall /\ inflight[t].op \in BlockingOps) => pc[t] = "blocked"
        /\ pc[t] = "ready" => inflight[t] = NoCall

C9_Witness ==
    /\ pc["t1"] = "blocked"
    /\ inflight["t1"].op = "cancel_order"
    /\ inflight["t1"].req.method = "cancel"
    /\ ret.op = "get_all_mids"
    /\ ret.thread = "t2"
    /\ ret.result.ok

\* C10: in a UserState returned by get_user_state or get_user_state_async the
\* equity equals the account value and the address is the caller's string.
C10_EquityIsAccountValue ==
    (ret.op \in {"get_user_state", "get_user_state_async"} /\ ret.result.ok) =>
        /\ ret.result.val.margin_summary_equity =
              ret.result.val.margin_summary_account_value
        /\ ret.result.val.address = ret.args

C10_Witness ==
    /\ ret.op = "get_user_state_async"
    /\ ret.result.ok
    /\ ret.result.val.margin_summary_equity # 0
    /\ ret.result.val.margin_summary_equity #
          ret.result.val.margin_summary_total_margin_used
    /\ ParseF64(ret.reply.val.margin_summary.total_margin_used).ok

====
